---- MODULE Spec2Model ----
(***************************************************************************)
(* brace: tokenizer (src/src/tokenizer.cpp, include/priv/brace/tokenizer.h)*)
(* and recursive-descent parser (src/src/brace.cpp, include/brace/brace.h).*)
(* A text is a sequence of one-character strings; a lexeme is the same.    *)
(***************************************************************************)
EXTENDS Integers, Sequences, FiniteSets, TLC

VARIABLES code, src, tk, ps, result, query

vars == <<code, src, tk, ps, result, query>>

(***************************************************************************)
(* Bounds of the explored inputs.                                          *)
(***************************************************************************)
MaxPieces == 3

MaxMembers == 2

MaxDepth == 1

(***************************************************************************)
(* Characters and the <cctype> classes the tokenizer uses.                 *)
(***************************************************************************)
NUL == "NUL"

LowerLetters ==
    << "a", "b", "c", "d", "e", "f", "g", "h", "i", "j", "k", "l", "m",
       "n", "o", "p", "q", "r", "s", "t", "u", "v", "w", "x", "y", "z" >>

UpperLetters ==
    << "A", "B", "C", "D", "E", "F", "G", "H", "I", "J", "K", "L", "M",
       "N", "O", "P", "Q", "R", "S", "T", "U", "V", "W", "X", "Y", "Z" >>

DigitChars == << "0", "1", "2", "3", "4", "5", "6", "7", "8", "9" >>

Range(s) == { s[i] : i \in DOMAIN s }

isalpha(c) == c \in Range(LowerLetters) \cup Range(UpperLetters)

isdigit(c) == c \in Range(DigitChars)

isalnum(c) == isalpha(c) \/ isdigit(c)

\* The grave accent is punctuation too; it cannot be written in a string
\* of this module and no explored input contains it.
ispunct(c) ==
    c \in { "!", "\"", "#", "$", "%", "&", "'", "(", ")", "*", "+", ",",
            "-", ".", "/", ":", ";", "<", "=", ">", "?", "@", "[", "\\",
            "]", "^", "_", "{", "|", "}", "~" }

tolower(c) ==
    IF c \in Range(UpperLetters)
    THEN LowerLetters[CHOOSE i \in DOMAIN UpperLetters : UpperLetters[i] = c]
    ELSE c

(***************************************************************************)
(* Token and TokenizeError.                                                *)
(***************************************************************************)
Token(type, lexeme, line, column) ==
    [type |-> type, lexeme |-> lexeme, line |-> line, column |-> column]

\* The variadic constructor streams its arguments into one message; the
\* message is kept as the fixed text and the streamed lexeme or character.
Message(text, arg, tail) == [text |-> text, arg |-> arg, tail |-> tail]

NoMessage == Message("", << >>, "")

TokenizeError(line, column, message) ==
    [m_line |-> line, m_column |-> column, m_message |-> message]

TokenizeError_message(e) == e.m_message

TokenizeError_line(e) == e.m_line

TokenizeError_column(e) == e.m_line

(***************************************************************************)
(* Tokenizer.  tk holds m_line, m_column, m_current, m_tokens, the position*)
(* in tokenize()/scan_tokens() (pc) and the error a scanner returned.      *)
(***************************************************************************)
is_at_end(c, t) == t.m_current >= Len(c)

peek(c, t) == IF is_at_end(c, t) THEN NUL ELSE c[t.m_current + 1]

peek_next(c, t) ==
    IF t.m_current + 1 >= Len(c) THEN NUL ELSE c[t.m_current + 2]

advance(c, t) ==
    IF peek(c, t) = "\n"
    THEN [t EXCEPT !.m_current = @ + 1, !.m_line = @ + 1, !.m_column = 1]
    ELSE [t EXCEPT !.m_current = @ + 1, !.m_column = @ + 1]

add_token(t, type, lexeme) ==
    [t EXCEPT !.m_tokens =
        Append(@, Token(type, lexeme, t.m_line, t.m_column - Len(lexeme)))]

Fail(t, message) ==
    [t EXCEPT !.pc = "error",
              !.err = TokenizeError(t.m_line, t.m_column, message)]

substr(c, start, n) == SubSeq(c, start + 1, start + n)

\* while (peek != '\n' && !is_at_end) advance
RECURSIVE line_comment(_, _)
line_comment(c, t) ==
    IF peek(c, t) # "\n" /\ ~is_at_end(c, t)
    THEN line_comment(c, advance(c, t))
    ELSE t

\* block_comment that a newline ends too.
RECURSIVE block_comment_one_line(_, _)
block_comment_one_line(c, t) ==
    IF is_at_end(c, t) THEN t
    ELSE IF peek(c, t) = "*" /\ peek_next(c, t) = "/"
         THEN advance(c, advance(c, t))
         ELSE IF peek(c, t) = "\n" THEN t
         ELSE block_comment_one_line(c, advance(c, t))

\* while (!is_at_end) { if (peek == '*' && peek_next == '/') {..break;} advance }
RECURSIVE block_comment(_, _)
block_comment(c, t) ==
    IF is_at_end(c, t) THEN t
    ELSE IF peek(c, t) = "*" /\ peek_next(c, t) = "/"
         THEN advance(c, advance(c, t))
         ELSE block_comment(c, advance(c, t))

\* skip_whitespace without the two comment branches.
RECURSIVE skip_whitespace_no_comments(_, _)
skip_whitespace_no_comments(c, t) ==
    IF is_at_end(c, t) THEN t
    ELSE IF peek(c, t) \in {" ", "\r", "\t", "\n"}
         THEN skip_whitespace_no_comments(c, advance(c, t))
         ELSE t

RECURSIVE skip_whitespace(_, _)
skip_whitespace(c, t) ==
    IF is_at_end(c, t) THEN t
    ELSE LET ch == peek(c, t) IN
         IF ch \in {" ", "\r", "\t", "\n"}
         THEN skip_whitespace(c, advance(c, t))
         ELSE IF ch = "/" /\ peek_next(c, t) = "/"
         THEN skip_whitespace(c, line_comment(c, t))
         ELSE IF ch = "/" /\ peek_next(c, t) = "*"
         THEN skip_whitespace(c, block_comment(c, advance(c, advance(c, t))))
         ELSE t

RECURSIVE alnum_run(_, _)
alnum_run(c, t) ==
    IF ~is_at_end(c, t) /\ isalnum(peek(c, t))
    THEN alnum_run(c, advance(c, t))
    ELSE t

RECURSIVE digit_run(_, _)
digit_run(c, t) ==
    IF ~is_at_end(c, t) /\ isdigit(peek(c, t))
    THEN digit_run(c, advance(c, t))
    ELSE t

\* keywords with the capitalised spellings the parser would accept.
keywords_capitalised ==
    { <<"t", "r", "u", "e">>, <<"f", "a", "l", "s", "e">>,
      <<"n", "u", "l", "l">>, <<"T", "r", "u", "e">>,
      <<"F", "a", "l", "s", "e">>, <<"N", "u", "l", "l">> }

keywords ==
    { <<"t", "r", "u", "e">>, <<"f", "a", "l", "s", "e">>,
      <<"n", "u", "l", "l">> }

keyword(c, t) ==
    LET start == t.m_current
        t1 == alnum_run(c, t)
        lexeme == substr(c, start, t1.m_current - start)
    IN  IF lexeme \in keywords
        THEN add_token(t1, "Keyword", lexeme)
        ELSE Fail(t1, Message("Unregonized keyword: ", lexeme, ""))

\* number with an exponent accepted: after the digits an 'e' or 'E' and
\* the digits that follow it belong to the token.
number_exponent(c, t) ==
    LET start == t.m_current
        t1 == IF peek(c, t) = "-" THEN advance(c, t) ELSE t
        t2 == digit_run(c, t1)
        t3 == advance(c, t2)
        t4 == IF ~is_at_end(c, t2) /\ peek(c, t2) = "."
              THEN digit_run(c, t3) ELSE t2
        t5 == IF peek(c, t4) \in {"e", "E"}
              THEN digit_run(c, advance(c, t4)) ELSE t4
    IN  IF ~is_at_end(c, t2) /\ peek(c, t2) = "." /\ ~isdigit(peek(c, t3))
        THEN Fail(t3, Message("Invalid number format", << >>, ""))
        ELSE add_token(t5, "NumberLiteral",
                       substr(c, start, t5.m_current - start))

number(c, t) ==
    LET start == t.m_current
        t1 == IF peek(c, t) = "-" THEN advance(c, t) ELSE t
        t2 == digit_run(c, t1)
        t3 == advance(c, t2)
        t4 == digit_run(c, t3)
    IN  IF ~is_at_end(c, t2) /\ peek(c, t2) = "."
        THEN IF ~isdigit(peek(c, t3))
             THEN Fail(t3, Message("Invalid number format", << >>, ""))
             ELSE add_token(t4, "NumberLiteral",
                            substr(c, start, t4.m_current - start))
        ELSE add_token(t2, "NumberLiteral",
                       substr(c, start, t2.m_current - start))

\* while (!is_at_end && peek != '"') { if (peek == '\n') return error;
\*                                     value += advance }
\* The pair is the scanner state and the accumulated value.
RECURSIVE string_body(_, _, _)
string_body(c, t, value) ==
    IF ~is_at_end(c, t) /\ peek(c, t) # "\""
    THEN IF peek(c, t) = "\n"
         THEN <<Fail(t, Message("Unterminated string literal", << >>, "")),
                value>>
         ELSE string_body(c, advance(c, t), Append(value, peek(c, t)))
    ELSE <<t, value>>

string(c, t) ==
    LET r == string_body(c, advance(c, t), << >>)
        t1 == r[1]
    IN  IF t1.pc = "error" THEN t1
        ELSE IF is_at_end(c, t1)
        THEN Fail(t1, Message("Unterminated string literal", << >>, ""))
        ELSE add_token(advance(c, t1), "StringLiteral", r[2])

punctuation(c, t) ==
    LET ch == peek(c, t)
        lexeme == <<ch>>
        t1 == advance(c, t)
    IN  IF ch \in {";", ":", ",", "(", ")", "{", "}", "[", "]"}
        THEN add_token(t1, "Punctuation", lexeme)
        ELSE Fail(t1, Message("Unrecognized punctuation: ", lexeme, ""))

\* scan_token that passes over an unexpected character without an error
\* and without consuming it.
scan_token_keep_unexpected(c, t) ==
    LET ch == peek(c, t) IN
    IF isalpha(ch) THEN keyword(c, t)
    ELSE IF isdigit(ch) \/ (ch = "-" /\ isdigit(peek_next(c, t)))
    THEN number(c, t)
    ELSE IF ch = "\"" THEN string(c, t)
    ELSE IF ispunct(ch) THEN punctuation(c, t)
    ELSE t

\* The dispatch on the first character of a token, scan_tokens lines 61-93.
scan_token(c, t) ==
    LET ch == peek(c, t) IN
    IF isalpha(ch) THEN keyword(c, t)
    ELSE IF isdigit(ch) \/ (ch = "-" /\ isdigit(peek_next(c, t)))
    THEN number(c, t)
    ELSE IF ch = "\"" THEN string(c, t)
    ELSE IF ispunct(ch) THEN punctuation(c, t)
    ELSE Fail(t, Message("Unexepcted character: '", <<ch>>, "'"))

tokenize_begin ==
    [m_line |-> 1, m_column |-> 1, m_current |-> 0, m_tokens |-> << >>,
     pc |-> "loop", err |-> TokenizeError(0, 0, NoMessage)]

\* tokenize_step without the Eof token.
tokenize_step_no_eof(c, t) ==
    CASE t.pc = "loop" ->
            IF is_at_end(c, t) THEN [t EXCEPT !.pc = "finish"]
            ELSE LET t1 == skip_whitespace(c, t) IN
                 [t1 EXCEPT !.pc = IF is_at_end(c, t1) THEN "finish"
                                   ELSE "token"]
      [] t.pc = "token" ->
            LET t1 == scan_token(c, t) IN
            IF t1.pc = "error" THEN t1 ELSE [t1 EXCEPT !.pc = "loop"]
      [] t.pc = "finish" -> [t EXCEPT !.pc = "ok"]
      [] OTHER -> t

\* One step of tokenize(): pc "loop" is the head of the scan_tokens loop
\* (skip_whitespace and the two end tests), "token" the dispatch of one
\* token, "finish" the add_token(Eof) after TRY(scan_tokens).
tokenize_step(c, t) ==
    CASE t.pc = "loop" ->
            IF is_at_end(c, t) THEN [t EXCEPT !.pc = "finish"]
            ELSE LET t1 == skip_whitespace(c, t) IN
                 [t1 EXCEPT !.pc = IF is_at_end(c, t1) THEN "finish"
                                   ELSE "token"]
      [] t.pc = "token" ->
            LET t1 == scan_token(c, t) IN
            IF t1.pc = "error" THEN t1 ELSE [t1 EXCEPT !.pc = "loop"]
      [] t.pc = "finish" ->
            [add_token(t, "Eof", << >>) EXCEPT !.pc = "ok"]
      [] OTHER -> t

RECURSIVE tokenize_run(_, _)
tokenize_run(c, t) ==
    IF t.pc \in {"ok", "error"} THEN t
    ELSE tokenize_run(c, tokenize_step(c, t))

tokenize(c) == tokenize_run(c, tokenize_begin)

(***************************************************************************)
(* JsonValue, ParseError, Result.                                          *)
(***************************************************************************)
JsonNull == [t |-> "Null"]

JsonBool(b) == [t |-> "Bool", b |-> b]

JsonNumber(d) == [t |-> "Number", d |-> d]

JsonString(s) == [t |-> "String", s |-> s]

JsonObjectValue(o) == [t |-> "Object", o |-> o]

JsonArrayValue(a) == [t |-> "Array", a |-> a]

\* JsonObject is an unordered_map: a function from keys to values.
EmptyObject == [k \in {} |-> JsonNull]

\* object[key] = value
ObjectAssign(o, key, value) ==
    [k \in DOMAIN o \cup {key} |-> IF k = key THEN value ELSE o[k]]

ParseError(line, column, message) ==
    [m_line |-> line, m_column |-> column, m_message |-> message]

Ok(v) == [ok |-> TRUE, value |-> v]

Err(e) == [ok |-> FALSE, error |-> e]

NoResult == [ok |-> FALSE, none |-> TRUE]

\* std::stod on a number lexeme -?d+(.d+)?: the decimal value, kept as the
\* integer m and the exponent e of m / 10^e with trailing zeros removed
\* (the rounding to a double is not modelled).
DigitValue(c) == (CHOOSE i \in DOMAIN DigitChars : DigitChars[i] = c) - 1

RECURSIVE digits_value(_)
digits_value(s) ==
    IF s = << >> THEN 0
    ELSE digits_value(SubSeq(s, 1, Len(s) - 1)) * 10 + DigitValue(s[Len(s)])

RECURSIVE normalize(_, _)
normalize(m, e) ==
    IF e > 0 /\ m % 10 = 0 THEN normalize(m \div 10, e - 1)
    ELSE [m |-> m, e |-> e]

stod(lexeme) ==
    LET neg == lexeme[1] = "-"
        body == IF neg THEN Tail(lexeme) ELSE lexeme
        dots == { i \in DOMAIN body : body[i] = "." }
        dot == IF dots = {} THEN 0 ELSE CHOOSE i \in dots : TRUE
        digits == IF dot = 0 THEN body
                  ELSE SubSeq(body, 1, dot - 1)
                       \o SubSeq(body, dot + 1, Len(body))
        scale == IF dot = 0 THEN 0 ELSE Len(body) - dot
        n == normalize(digits_value(digits), scale)
    IN  IF neg THEN [n EXCEPT !.m = 0 - @] ELSE n

is_object(v) == v.t = "Object"

\* contains with the other answer on a value that is not an Object.
contains_or_true(v, key) ==
    IF is_object(v) THEN key \in DOMAIN v.o ELSE TRUE

\* contains(key): std::get and find on the object, false on another variant.
contains(v, key) ==
    IF is_object(v) THEN key \in DOMAIN v.o ELSE FALSE

\* The last call of contains: the value it was called on, the key and the
\* answer.
NoQuery == [none |-> TRUE]

(***************************************************************************)
(* Parser.  ps holds m_tokens and m_current, the stack of the active       *)
(* parse_object / parse_array calls (their local object or array and the   *)
(* pending key), the position in the grammar rules (pc) and the Result the *)
(* last returning rule hands to its caller (ret).  pc "ub" is a read of    *)
(* m_tokens at an index past its end.                                      *)
(***************************************************************************)
Parser_is_at_end(p) == p.m_current >= Len(p.m_tokens)

InBounds(p) == p.m_current < Len(p.m_tokens)

Parser_peek(p) == p.m_tokens[p.m_current + 1]

Parser_advance(p) == [p EXCEPT !.m_current = @ + 1]

Trap(p) == [p EXCEPT !.pc = "ub"]

Push(p, frame) == [p EXCEPT !.stack = Append(@, frame)]

Top(p) == p.stack[Len(p.stack)]

Pop(p) == [p EXCEPT !.stack = SubSeq(@, 1, Len(@) - 1)]

\* A rule returns r to its caller.
Return(p, r) == [p EXCEPT !.ret = r, !.pc = "return"]

ObjectFrame == [kind |-> "object", object |-> EmptyObject, key |-> << >>]

ArrayFrame == [kind |-> "array", array |-> << >>]

lowercase(lexeme) == [i \in DOMAIN lexeme |-> tolower(lexeme[i])]

\* parse_value up to its return or its call of parse_object / parse_array
\* (whose first statement, the advance over the opening token, is included).
parse_value(p) ==
    IF ~InBounds(p) THEN Trap(p)
    ELSE
    LET token == Parser_peek(p)
        lowercase_lexeme == lowercase(token.lexeme)
        unexpected ==
            Return(p, Err(ParseError(token.line, token.column,
                          Message("Unexpected token: ", token.lexeme, ""))))
    IN  IF token.type = "StringLiteral"
        THEN Return(Parser_advance(p), Ok(JsonString(token.lexeme)))
        ELSE IF token.type = "NumberLiteral"
        THEN Return(Parser_advance(p), Ok(JsonNumber(stod(token.lexeme))))
        ELSE IF token.type = "Punctuation" /\ token.lexeme = <<"{">>
        THEN [Parser_advance(Push(p, ObjectFrame)) EXCEPT !.pc = "object"]
        ELSE IF token.type = "Punctuation" /\ token.lexeme = <<"[">>
        THEN [Parser_advance(Push(p, ArrayFrame)) EXCEPT !.pc = "array"]
        ELSE IF token.type = "Keyword"
        THEN IF lowercase_lexeme \in {<<"t", "r", "u", "e">>,
                                      <<"f", "a", "l", "s", "e">>}
             THEN Return(Parser_advance(p),
                         Ok(JsonBool(lowercase_lexeme = <<"t", "r", "u", "e">>)))
             ELSE IF lowercase_lexeme = <<"n", "u", "l", "l">>
             THEN Return(Parser_advance(p), Ok(JsonNull))
             ELSE unexpected
        ELSE unexpected

\* parse_object_head without the test of the key's type.
parse_object_head_any_key(p) ==
    IF ~Parser_is_at_end(p) /\ Parser_peek(p).lexeme # <<"}">>
    THEN LET key_token == Parser_peek(p)
             p1 == Parser_advance(p)
         IN  IF ~InBounds(p1) THEN Trap(p1)
             ELSE LET colon == Parser_peek(p1)
                      p2 == Parser_advance(p1)
                  IN  IF colon.lexeme # <<":">>
                      THEN Return(Pop(p2),
                                  Err(ParseError(colon.line, colon.column,
                                      Message("Expected ':' after key in object",
                                              << >>, ""))))
                      ELSE [p2 EXCEPT !.stack[Len(p2.stack)].key =
                                          key_token.lexeme,
                                      !.pc = "value"]
    ELSE IF ~InBounds(p) THEN Trap(p)
    ELSE Return(Pop(Parser_advance(p)), Ok(JsonObjectValue(Top(p).object)))

\* The head of the while loop of parse_object: either the key and the colon
\* of the next member, up to the call of parse_value, or the exit of the
\* loop, the advance over the closing token and the return of the object.
parse_object_head(p) ==
    IF ~Parser_is_at_end(p) /\ Parser_peek(p).lexeme # <<"}">>
    THEN LET key_token == Parser_peek(p)
             p1 == Parser_advance(p)
         IN  IF key_token.type # "StringLiteral"
             THEN Return(Pop(p1),
                         Err(ParseError(key_token.line, key_token.column,
                             Message("Expected string key in object",
                                     << >>, ""))))
             ELSE IF ~InBounds(p1) THEN Trap(p1)
             ELSE LET colon == Parser_peek(p1)
                      p2 == Parser_advance(p1)
                  IN  IF colon.lexeme # <<":">>
                      THEN Return(Pop(p2),
                                  Err(ParseError(colon.line, colon.column,
                                      Message("Expected ':' after key in object",
                                              << >>, ""))))
                      ELSE [p2 EXCEPT !.stack[Len(p2.stack)].key =
                                          key_token.lexeme,
                                      !.pc = "value"]
    ELSE IF ~InBounds(p) THEN Trap(p)
    ELSE Return(Pop(Parser_advance(p)), Ok(JsonObjectValue(Top(p).object)))

\* parse_object after parse_value returned: TRY_ASSIGN, the assignment to
\* object[key] and the test of the token after the member.
parse_object_member(p) ==
    IF ~p.ret.ok THEN Return(Pop(p), p.ret)
    ELSE
    LET object == ObjectAssign(Top(p).object, Top(p).key, p.ret.value)
        p1 == [p EXCEPT !.stack[Len(p.stack)].object = object]
    IN  IF ~InBounds(p1) THEN Trap(p1)
        ELSE LET next == Parser_peek(p1) IN
             IF next.lexeme = <<",">>
             THEN [Parser_advance(p1) EXCEPT !.pc = "object"]
             ELSE IF next.lexeme # <<"}">>
             THEN Return(Pop(p1),
                         Err(ParseError(next.line, next.column,
                             Message("Expected ',' or '}' in object",
                                     << >>, ""))))
             ELSE [p1 EXCEPT !.pc = "object"]

\* The head of the while loop of parse_array.
parse_array_head(p) ==
    IF ~Parser_is_at_end(p) /\ Parser_peek(p).lexeme # <<"]">>
    THEN [p EXCEPT !.pc = "value"]
    ELSE IF ~InBounds(p) THEN Trap(p)
    ELSE Return(Pop(Parser_advance(p)), Ok(JsonArrayValue(Top(p).array)))

\* parse_array_element with an element required after every ','.
parse_array_element_strict(p) ==
    IF ~p.ret.ok THEN Return(Pop(p), p.ret)
    ELSE
    LET array == Append(Top(p).array, p.ret.value)
        p1 == [p EXCEPT !.stack[Len(p.stack)].array = array]
    IN  IF ~InBounds(p1) THEN Trap(p1)
        ELSE LET next == Parser_peek(p1) IN
             IF next.lexeme = <<",">>
             THEN [Parser_advance(p1) EXCEPT !.pc = "value"]
             ELSE IF next.lexeme # <<"]">>
             THEN Return(Pop(p1),
                         Err(ParseError(next.line, next.column,
                             Message("Expected ',' or ']' in array",
                                     << >>, ""))))
             ELSE [p1 EXCEPT !.pc = "array"]

\* parse_array_element that recovers from the error of an element: the
\* element is dropped and the loop goes on.
parse_array_element_recover(p) ==
    IF ~p.ret.ok THEN [p EXCEPT !.pc = "array"]
    ELSE
    LET array == Append(Top(p).array, p.ret.value)
        p1 == [p EXCEPT !.stack[Len(p.stack)].array = array]
    IN  IF ~InBounds(p1) THEN Trap(p1)
        ELSE LET next == Parser_peek(p1) IN
             IF next.lexeme = <<",">>
             THEN [Parser_advance(p1) EXCEPT !.pc = "array"]
             ELSE IF next.lexeme # <<"]">>
             THEN Return(Pop(p1),
                         Err(ParseError(next.line, next.column,
                             Message("Expected ',' or ']' in array",
                                     << >>, ""))))
             ELSE [p1 EXCEPT !.pc = "array"]

\* parse_array after parse_value returned: TRY_ASSIGN_MOVE, emplace_back
\* and the test of the token after the element.
parse_array_element(p) ==
    IF ~p.ret.ok THEN Return(Pop(p), p.ret)
    ELSE
    LET array == Append(Top(p).array, p.ret.value)
        p1 == [p EXCEPT !.stack[Len(p.stack)].array = array]
    IN  IF ~InBounds(p1) THEN Trap(p1)
        ELSE LET next == Parser_peek(p1) IN
             IF next.lexeme = <<",">>
             THEN [Parser_advance(p1) EXCEPT !.pc = "array"]
             ELSE IF next.lexeme # <<"]">>
             THEN Return(Pop(p1),
                         Err(ParseError(next.line, next.column,
                             Message("Expected ',' or ']' in array",
                                     << >>, ""))))
             ELSE [p1 EXCEPT !.pc = "array"]

ParserIdle ==
    [m_tokens |-> << >>, m_current |-> 0, stack |-> << >>, pc |-> "idle",
     ret |-> NoResult]

\* parse() lines 20-22: the tokens are stored, the cursor is reset and
\* parse_value is called.
parse_begin(tokens) ==
    [m_tokens |-> tokens, m_current |-> 0, stack |-> << >>, pc |-> "value",
     ret |-> NoResult]

\* parse() lines 15-18: a lexical error is rebuilt as a ParseError.
parse_lex_error(t) ==
    Err(ParseError(TokenizeError_line(t.err), TokenizeError_column(t.err),
                   TokenizeError_message(t.err)))

parse_step(p) ==
    CASE p.pc = "value" -> parse_value(p)
      [] p.pc = "object" -> parse_object_head(p)
      [] p.pc = "array" -> parse_array_head(p)
      [] p.pc = "return" /\ p.stack # << >> /\ Top(p).kind = "object" ->
            parse_object_member(p)
      [] p.pc = "return" /\ p.stack # << >> /\ Top(p).kind = "array" ->
            parse_array_element(p)
      [] p.pc = "return" /\ p.stack = << >> -> [p EXCEPT !.pc = "done"]
      [] OTHER -> p

RECURSIVE parse_run(_)
parse_run(p) ==
    IF p.pc \in {"done", "ub"} THEN p ELSE parse_run(parse_step(p))

UB == [ok |-> FALSE, ub |-> TRUE]

Outcome(p) == IF p.pc = "ub" THEN UB ELSE p.ret

\* parse() after the call of tokenize, which left the tokenizer in t.
parse_tokens(t) ==
    IF t.pc = "error" THEN parse_lex_error(t)
    ELSE Outcome(parse_run(parse_begin(t.m_tokens)))

parse(c) == parse_tokens(tokenize(c))

(***************************************************************************)
(* The explored inputs.  Texts are concatenations of at most MaxPieces     *)
(* pieces of one of three kinds.  Docs are source documents, rendered        *)
(* without whitespace: scalars and containers of at most MaxMembers scalar *)
(* members, wrapped at most MaxDepth times in a one-element array or a     *)
(* one-member object.  A flat container is also rendered with a ',' before *)
(* its closing token.                                                      *)
(***************************************************************************)
Quoted(s) == <<"\"">> \o s \o <<"\"">>

\* Pieces of token level, for the grammar rules.
SynPieces ==
    { <<"{">>, <<"}">>, <<"[">>, <<"]">>, <<",">>, <<":">>,
      Quoted(<<"a">>), Quoted(<<":">>), <<"-", "2", ".", "5", "0">>,
      <<"t", "r", "u", "e">> }

\* Pieces of character level, for the scanners.
LexPieces ==
    { Quoted(<<"\\">>), <<"\"">>, <<"-", "2", ".", "5", "0">>, <<"1", ".">>,
      <<"N", "u", "l", "l">>, <<" ">>, <<"\n">>, <<"/", "/">>, <<"/", "*">>,
      <<"*", "/">>, <<"\f">> }

\* Pieces of word level, for numbers, keywords and what follows them.
WordPieces ==
    { <<"1">>, <<"-", "2", ".", "5", "0">>, <<"e">>, <<"E", "5">>,
      <<"n", "u", "l", "l">>, <<"T", "r", "u", "e">>,
      <<"f", "a", "l", "s", "e">>, <<" ">> }

RECURSIVE Flatten(_)
Flatten(ss) == IF ss = << >> THEN << >> ELSE Head(ss) \o Flatten(Tail(ss))

Lists(S, n) == UNION { [1..k -> S] : k \in 0..n }

Texts ==
    { Flatten(ss) : ss \in Lists(SynPieces, MaxPieces)
                           \cup Lists(LexPieces, MaxPieces)
                           \cup Lists(WordPieces, MaxPieces) }

Doc(kind, text, value, keys, items) ==
    [kind |-> kind, text |-> text, value |-> value, keys |-> keys,
     items |-> items]

ScalarDoc(text, value) == Doc("scalar", text, value, << >>, << >>)

ArrayDoc(items) == Doc("array", << >>, JsonNull, << >>, items)

ObjectDoc(keys, items) == Doc("object", << >>, JsonNull, keys, items)

NoDoc == Doc("none", << >>, JsonNull, << >>, << >>)

ScalarSeq ==
    << ScalarDoc(<<"1">>, JsonNumber([m |-> 1, e |-> 0])),
       ScalarDoc(Quoted(<<"]">>), JsonString(<<"]">>)),
       ScalarDoc(<<"n", "u", "l", "l">>, JsonNull) >>

Scalars == Range(ScalarSeq)

\* The value of the i-th member of an object: the members of one object
\* have values of different types, so a repeated key meets a changed value.
MemberValue(i) == ScalarSeq[((i - 1) % Len(ScalarSeq)) + 1]

Keys == { <<"a">>, <<"}">> }

FlatDocs ==
    Scalars
    \cup { ArrayDoc(items) : items \in Lists(Scalars, MaxMembers) }
    \cup { ObjectDoc(keys, [i \in DOMAIN keys |-> MemberValue(i)]) :
               keys \in Lists(Keys, MaxMembers) }

RECURSIVE NestedDocs(_)
NestedDocs(d) ==
    IF d = 0 THEN FlatDocs
    ELSE LET inner == NestedDocs(d - 1) IN
         inner \cup { ArrayDoc(<<x>>) : x \in inner }
               \cup { ObjectDoc(<< <<"a">> >>, <<x>>) : x \in inner }

Docs == NestedDocs(MaxDepth)

RECURSIVE Render(_)
Render(d) ==
    LET RECURSIVE Join(_)
        Join(i) ==
            IF i > Len(d.items) THEN << >>
            ELSE (IF i > 1 THEN <<",">> ELSE << >>)
                 \o (IF d.kind = "object"
                     THEN Quoted(d.keys[i]) \o <<":">> ELSE << >>)
                 \o Render(d.items[i]) \o Join(i + 1)
    IN  CASE d.kind = "scalar" -> d.text
          [] d.kind = "array" -> <<"[">> \o Join(1) \o <<"]">>
          [] d.kind = "object" -> <<"{">> \o Join(1) \o <<"}">>

\* The same text with a ',' before the closing token of the outermost
\* container.
RenderTrailing(d) ==
    LET r == Render(d) IN
    SubSeq(r, 1, Len(r) - 1) \o <<",">> \o SubSeq(r, Len(r), Len(r))

(***************************************************************************)
(* One call of Parser::parse(code) on a fresh Parser.                      *)
(***************************************************************************)
Init ==
    /\ \/ src = NoDoc /\ code \in Texts
       \/ src \in Docs /\ code = Render(src)
       \/ src \in FlatDocs /\ src.items # << >> /\ code = RenderTrailing(src)
    /\ tk = [m_line |-> 0, m_column |-> 0, m_current |-> 0,
             m_tokens |-> << >>, pc |-> "start",
             err |-> TokenizeError(0, 0, NoMessage)]
    /\ ps = ParserIdle
    /\ result = NoResult
    /\ query = NoQuery

\* tokenize() lines 13-16
TokenizeBegin ==
    /\ tk.pc = "start"
    /\ tk' = tokenize_begin
    /\ UNCHANGED <<code, src, ps, result, query>>

ScanSkip ==
    /\ tk.pc = "loop"
    /\ tk' = tokenize_step(code, tk)
    /\ UNCHANGED <<code, src, ps, result, query>>

ScanToken ==
    /\ tk.pc = "token"
    /\ tk' = tokenize_step(code, tk)
    /\ UNCHANGED <<code, src, ps, result, query>>

TokenizeFinish ==
    /\ tk.pc = "finish"
    /\ tk' = tokenize_step(code, tk)
    /\ UNCHANGED <<code, src, ps, result, query>>

ParseLexError ==
    /\ tk.pc = "error"
    /\ ps.pc = "idle"
    /\ result' = parse_lex_error(tk)
    /\ ps' = [ps EXCEPT !.pc = "done"]
    /\ UNCHANGED <<code, src, tk, query>>

ParseBegin ==
    /\ tk.pc = "ok"
    /\ ps.pc = "idle"
    /\ ps' = parse_begin(tk.m_tokens)
    /\ UNCHANGED <<code, src, tk, result, query>>

ParseValue ==
    /\ ps.pc = "value"
    /\ ps' = parse_step(ps)
    /\ UNCHANGED <<code, src, tk, result, query>>

ParseObjectHead ==
    /\ ps.pc = "object"
    /\ ps' = parse_step(ps)
    /\ UNCHANGED <<code, src, tk, result, query>>

ParseArrayHead ==
    /\ ps.pc = "array"
    /\ ps' = parse_step(ps)
    /\ UNCHANGED <<code, src, tk, result, query>>

ParseObjectMember ==
    /\ ps.pc = "return"
    /\ ps.stack # << >>
    /\ Top(ps).kind = "object"
    /\ ps' = parse_step(ps)
    /\ UNCHANGED <<code, src, tk, result, query>>

ParseArrayElement ==
    /\ ps.pc = "return"
    /\ ps.stack # << >>
    /\ Top(ps).kind = "array"
    /\ ps' = parse_step(ps)
    /\ UNCHANGED <<code, src, tk, result, query>>

\* parse() line 22: the Result of the outermost parse_value is returned.
ParseReturn ==
    /\ ps.pc = "return"
    /\ ps.stack = << >>
    /\ ps' = parse_step(ps)
    /\ result' = ps.ret
    /\ UNCHANGED <<code, src, tk, query>>

Done == ps.pc = "done"

\* The values a caller holds after parse returned a value: the value and
\* the members operator[] reaches in it.
Held(v) ==
    {v} \cup (IF v.t = "Object" THEN { v.o[k] : k \in DOMAIN v.o }
              ELSE IF v.t = "Array" THEN { v.a[i] : i \in DOMAIN v.a }
              ELSE {})

\* One call of contains(key) on a value parse returned.
Contains ==
    /\ Done /\ result.ok
    /\ query = NoQuery
    /\ \E v \in Held(result.value), key \in Keys :
          query' = [value |-> v, key |-> key,
                    answer |-> contains(v, key)]
    /\ UNCHANGED <<code, src, tk, ps, result>>

\* The steps of scan_tokens, and the other steps of parse.
Scan ==
    \/ ScanSkip
    \/ ScanToken

Rest ==
    \/ TokenizeBegin
    \/ TokenizeFinish
    \/ ParseLexError
    \/ ParseBegin
    \/ ParseValue
    \/ ParseObjectHead
    \/ ParseArrayHead
    \/ ParseObjectMember
    \/ ParseArrayElement
    \/ ParseReturn

\* The steps of one call of parse.
ParseCall ==
    \/ Scan
    \/ Rest

Next ==
    \/ ParseCall
    \/ Contains

Spec == Init /\ [][Next]_vars

\* ENABLED <<Scan>>_vars, written out from the guards of the two steps: a
\* step of scan_tokens can be taken and changes the state.
ScanEnabled ==
    tk.pc \in {"loop", "token"} /\ tokenize_step(code, tk) # tk

\* parse is a sequential call: whenever it has a next step, it takes it.
\* The last conjunct is weak fairness of Scan, WF_vars(Scan), with its
\* enabling condition written as the state predicate above.
LiveSpec ==
    /\ Spec
    /\ WF_vars(Rest)
    /\ <>[]ScanEnabled => []<><<Scan>>_vars

(***************************************************************************)
(* Properties.                                                             *)
(***************************************************************************)
Last(s) == s[Len(s)]

InsertAt(c, pos, s) == SubSeq(c, 1, pos) \o s \o SubSeq(c, pos + 1, Len(c))

\* C1: when the tokenizer fails, parse returns an error without running a
\* grammar rule, and the ParseError carries the line, the column and the
\* message of the lexical error, which are the tokenizer's line and column
\* counters where the error was detected.
C1_LexErrorCarried ==
    (Done /\ tk.pc = "error") =>
        /\ ~result.ok
        /\ ps.m_tokens = << >> /\ ps.m_current = 0 /\ ps.stack = << >>
        /\ result.error.m_line = tk.m_line
        /\ result.error.m_column = tk.m_column
        /\ result.error.m_message = tk.err.m_message

\* The value a source document denotes: arrays keep every element in
\* source order, objects hold one entry per distinct key with the value of
\* its last occurrence.
LastIndex(keys, k) ==
    CHOOSE i \in DOMAIN keys :
        keys[i] = k /\ \A j \in DOMAIN keys : keys[j] = k => j <= i

RECURSIVE Expected(_)
Expected(d) ==
    CASE d.kind = "scalar" -> d.value
      [] d.kind = "array" ->
            JsonArrayValue([i \in DOMAIN d.items |-> Expected(d.items[i])])
      [] d.kind = "object" ->
            JsonObjectValue([k \in Range(d.keys) |->
                                Expected(d.items[LastIndex(d.keys, k)])])

\* C2: every well-formed document of supported literals parses to the tree
\* its text denotes.
C2_WellFormedParses ==
    (Done /\ src # NoDoc /\ code = Render(src)) => result = Ok(Expected(src))

\* C3: a key that occurs more than once in an object literal has exactly
\* one entry in the resulting Object, holding the value of its last
\* occurrence, and the entries of the other keys are those of their members.
C3_LastWriteWins ==
    (Done /\ src.kind = "object" /\ code = Render(src) /\ result.ok
          /\ \E i, j \in DOMAIN src.keys : i # j /\ src.keys[i] = src.keys[j])
    => /\ result.value.t = "Object"
       /\ DOMAIN result.value.o = Range(src.keys)
       /\ \A k \in Range(src.keys) :
             result.value.o[k] = Expected(src.items[LastIndex(src.keys, k)])

Openers == { <<"[">>, <<"{">> }

\* The last token scanned so far is a punctuation token with such a lexeme.
PrevIs(lexemes) ==
    /\ tk.m_tokens # << >>
    /\ Last(tk.m_tokens).type = "Punctuation"
    /\ Last(tk.m_tokens).lexeme \in lexemes

\* The tokenizer stands at a closing '}' or ']'.
AtClosing == tk.pc = "token" /\ peek(code, tk) \in {"}", "]"}

WithComma == InsertAt(code, tk.m_current, <<",">>)

BlockComments ==
    { <<"/", "*", "/", "*", "/">>, <<"/", "*", "\"", "\n", "*", "*", "/">> }

LineComments == { <<"/", "/", "*", "\"", "/">> }

\* The comments that may be inserted at offset pos: a block comment, a line
\* comment with its newline, or at the end of the text a line comment alone.
CommentsAt(pos) ==
    BlockComments \cup { l \o <<"\n">> : l \in LineComments }
                  \cup (IF pos = Len(code) THEN LineComments ELSE {})

\* The tokenizer stands between two tokens: right after a token (or at the
\* start of the text), or, after whitespace or a comment, at the first
\* character of the next token.
BetweenTokens ==
    \/ tk.pc = "loop"
    \/ /\ tk.pc = "token"
       /\ tk.m_current > 0
       /\ code[tk.m_current] \in {" ", "\r", "\t", "\n", "/"}

\* What tokenize returns, without the positions of the tokens.
TokenView(t) ==
    IF t.pc = "ok"
    THEN [ok |-> TRUE,
          tokens |-> [i \in DOMAIN t.m_tokens |->
                         <<t.m_tokens[i].type, t.m_tokens[i].lexeme>>]]
    ELSE [ok |-> FALSE, message |-> t.err.m_message]

\* What parse returns, without the position of an error.
ParseView(r) == IF r.ok THEN r ELSE [ok |-> FALSE, message |-> r.error.m_message]

\* C5 as stated: a comment inserted between two tokens changes neither the
\* token types and lexemes nor the result of parse.
C5_CommentsInvisibleAny ==
    BetweenTokens =>
        LET t0 == tokenize(code)
            r0 == parse_tokens(t0)
        IN  \A cm \in CommentsAt(tk.m_current) :
                LET t1 == tokenize(InsertAt(code, tk.m_current, cm)) IN
                /\ TokenView(t1) = TokenView(t0)
                /\ parse_tokens(t1) = r0

\* C5 amended: a comment inserted between two tokens changes neither the
\* token types and lexemes, nor the value parse returns, nor the message of
\* the error it returns (the line and column of an error move with the text).
C5_CommentsInvisible ==
    BetweenTokens =>
        LET t0 == tokenize(code)
            v0 == TokenView(t0)
            r0 == ParseView(parse_tokens(t0))
        IN  \A cm \in CommentsAt(tk.m_current) :
                LET t1 == tokenize(InsertAt(code, tk.m_current, cm)) IN
                /\ TokenView(t1) = v0
                /\ ParseView(parse_tokens(t1)) = r0

C5_Witness ==
    /\ BetweenTokens /\ Len(tk.m_tokens) >= 2 /\ ~is_at_end(code, tk)
    /\ tokenize(code).pc = "ok" /\ parse(code).ok
    /\ \E cm \in CommentsAt(tk.m_current) :
          tokenize(InsertAt(code, tk.m_current, cm)).m_tokens
              # tokenize(code).m_tokens

\* C6: when tokenize succeeds the token sequence is non-empty, ends in the
\* only Eof token it holds; once a scanner has returned an error the
\* tokenizer scans nothing more and the parser receives no tokens.
C6_EofOrFirstError ==
    [][ /\ tk'.pc = "ok" =>
              /\ tk'.m_tokens # << >>
              /\ \A i \in DOMAIN tk'.m_tokens :
                    (tk'.m_tokens[i].type = "Eof") <=> (i = Len(tk'.m_tokens))
        /\ tk.pc = "error" => (tk' = tk /\ ps'.m_tokens = << >>) ]_vars

C6_Witness ==
    /\ tk.pc = "ok" /\ Len(tk.m_tokens) >= 3
    /\ Last(tk.m_tokens).type = "Eof"

IsPunct(token, ch) == token.type = "Punctuation" /\ token.lexeme = <<ch>>

Fails(r, text) == ~r.ok /\ r.error.m_message = Message(text, << >>, "")

\* parse_object is at the head of its loop with a string literal ahead.
AtKey ==
    ps.pc = "object" /\ InBounds(ps)
                     /\ Parser_peek(ps).type = "StringLiteral"

\* C7: in parse_object, when the token after a string-literal key is not
\* the punctuation token ':', whatever else it is, parse fails with
\* "Expected ':' after key in object".
C7_ColonRequired ==
    (AtKey /\ ~IsPunct(ps.m_tokens[ps.m_current + 2], ":"))
    => Fails(parse(code), "Expected ':' after key in object")

\* parse_value has just returned a value to parse_object or parse_array.
AfterValue(kind) ==
    /\ ps.pc = "return" /\ ps.stack # << >> /\ Top(ps).kind = kind
    /\ ps.ret.ok /\ InBounds(ps)

\* C8: when the token after a member value of an object is not the
\* punctuation token ',' or '}', parse fails with "Expected ',' or '}' in
\* object", likewise with ']' after an element of an array, and the loop of
\* parse_object or parse_array is left, with the container returned, only
\* at the punctuation token '}' or ']'.
C8_SeparatorRequired ==
    /\ (AfterValue("object") /\ ~IsPunct(Parser_peek(ps), ",")
                             /\ ~IsPunct(Parser_peek(ps), "}"))
       => Fails(parse(code), "Expected ',' or '}' in object")
    /\ (AfterValue("array") /\ ~IsPunct(Parser_peek(ps), ",")
                            /\ ~IsPunct(Parser_peek(ps), "]"))
       => Fails(parse(code), "Expected ',' or ']' in array")
    /\ (ps.pc = "object" /\ parse_object_head(ps).ret.ok)
       => (InBounds(ps) /\ IsPunct(Parser_peek(ps), "}"))
    /\ (ps.pc = "array" /\ parse_array_head(ps).ret.ok)
       => (InBounds(ps) /\ IsPunct(Parser_peek(ps), "]"))

\* The offset in the text of the first character of every token, the Eof
\* token included, and the 1-based line and column of an offset.
RECURSIVE TokenOffsets(_, _)
TokenOffsets(c, t) ==
    IF t.pc \in {"ok", "error"} THEN << >>
    ELSE (IF t.pc \in {"token", "finish"} THEN <<t.m_current>> ELSE << >>)
         \o TokenOffsets(c, tokenize_step(c, t))

Newlines(c, off) == { i \in 1..off : c[i] = "\n" }

LineOf(c, off) == 1 + Cardinality(Newlines(c, off))

ColumnOf(c, off) ==
    LET nl == Newlines(c, off) IN
    off + 1 - (IF nl = {} THEN 0 ELSE CHOOSE i \in nl : \A j \in nl : j <= i)

\* The errors parse_value and the tests after a value raise on the token
\* under the cursor; the key and colon errors are raised on the token just
\* consumed.
RaisedOnPeek(message) ==
    message.text \in { "Unexpected token: ", "Expected ',' or '}' in object",
                       "Expected ',' or ']' in array" }

\* C9: every structural error carries the 1-based line and column of the
\* first character of the offending token.
C9_ErrorAtTokenStart ==
    (Done /\ tk.pc = "ok" /\ ~result.ok) =>
        LET index == IF RaisedOnPeek(result.error.m_message)
                     THEN ps.m_current + 1 ELSE ps.m_current
            off == TokenOffsets(code, tokenize_begin)[index]
        IN  /\ result.error.m_line = LineOf(code, off)
            /\ result.error.m_column = ColumnOf(code, off)

\* The tokenizer stands at the opening quote of a string.
AtString == tk.pc = "token" /\ peek(code, tk) = "\""

\* The double quotes after the opening one that no backslash precedes.
UnescapedQuotes ==
    { i \in (tk.m_current + 2)..Len(code) :
        code[i] = "\"" /\ code[i - 1] # "\\" }

\* C10: a string token runs from its opening quote to the next double quote
\* that is not preceded by a backslash, and its lexeme is the text between
\* the two, backslashes included.
C10_StringToUnescapedQuote ==
    (AtString /\ UnescapedQuotes # {}) =>
        LET close == CHOOSE i \in UnescapedQuotes :
                         \A j \in UnescapedQuotes : i <= j
            t1 == tokenize_step(code, tk)
        IN  (\A i \in (tk.m_current + 2)..close : code[i] # "\n") =>
                /\ t1.pc = "loop"
                /\ t1.m_current = close
                /\ Last(t1.m_tokens).type = "StringLiteral"
                /\ Last(t1.m_tokens).lexeme =
                       SubSeq(code, tk.m_current + 2, close - 1)

\* The offset after the longest run of characters of one class that starts
\* at offset i of the text c.
RunEnd(c, i, Class(_)) ==
    CHOOSE j \in i..Len(c) :
        /\ \A k \in (i + 1)..j : Class(c[k])
        /\ j = Len(c) \/ ~Class(c[j + 1])

\* The offset after the number written at offset i: an optional '-',
\* digits, and a '.' with digits when a digit follows the '.'.
NumberEnd(c, i) ==
    LET a == IF c[i + 1] = "-" THEN i + 1 ELSE i
        b == RunEnd(c, a, isdigit)
    IN  IF b + 2 <= Len(c) /\ c[b + 1] = "." /\ isdigit(c[b + 2])
        THEN RunEnd(c, b + 1, isdigit)
        ELSE b

\* The tokenizer is about to scan a number that an 'e' or 'E' follows.
AtNumberBeforeE ==
    /\ tk.pc = "token"
    /\ \/ isdigit(peek(code, tk))
       \/ peek(code, tk) = "-" /\ isdigit(peek_next(code, tk))
    /\ LET end == NumberEnd(code, tk.m_current) IN
       end < Len(code) /\ code[end + 1] \in {"e", "E"}

\* C11: when a number is immediately followed by 'e' or 'E', the number
\* token ends before that letter, the alphanumeric run that starts with the
\* letter is scanned as a keyword and rejected, and parse fails with the
\* unrecognized-keyword error that names the run.
C11_ExponentRejected ==
    AtNumberBeforeE =>
        LET start == tk.m_current
            end == NumberEnd(code, start)
            residual == SubSeq(code, end + 1, RunEnd(code, end, isalnum))
            t1 == tokenize_step(code, tk)
            t2 == tokenize_step(code, t1)
            t3 == tokenize_step(code, t2)
            r == parse(code)
        IN  /\ t1.pc = "loop" /\ t1.m_current = end
            /\ Len(t1.m_tokens) = Len(tk.m_tokens) + 1
            /\ Last(t1.m_tokens).type = "NumberLiteral"
            /\ Last(t1.m_tokens).lexeme = SubSeq(code, start + 1, end)
            /\ t2.pc = "token" /\ t2.m_current = end
            /\ t3.pc = "error"
            /\ t3.err.m_message = Message("Unregonized keyword: ", residual, "")
            /\ ~r.ok
            /\ r.error.m_message = Message("Unregonized keyword: ", residual, "")

\* parse has rejected a text made of a number with a fraction and an
\* exponent of two characters.
C11_Witness ==
    /\ Done /\ tk.pc = "error" /\ ~result.ok
    /\ Len(tk.m_tokens) = 1
    /\ tk.m_tokens[1].type = "NumberLiteral"
    /\ Len(tk.m_tokens[1].lexeme) = 5
    /\ tk.err.m_message.text = "Unregonized keyword: "
    /\ Len(tk.err.m_message.arg) = 2
    /\ code = tk.m_tokens[1].lexeme \o tk.err.m_message.arg
    /\ result.error.m_message = tk.err.m_message

\* C12: once a grammar rule has returned an error, every enclosing call
\* returns that same error at once: the error and the cursor stay as they
\* are, each step only leaves one enclosing parse_object or parse_array,
\* and parse returns the error, not a value.
C12_FirstErrorWins ==
    [][ (ps.pc = "return" /\ ~ps.ret.ok) =>
            /\ ps'.ret = ps.ret
            /\ ps'.m_current = ps.m_current
            /\ ps'.m_tokens = ps.m_tokens
            /\ IF ps.stack = << >>
               THEN ps'.pc = "done" /\ result' = ps.ret /\ ~result'.ok
               ELSE /\ ps'.pc = "return"
                    /\ ps'.stack = SubSeq(ps.stack, 1, Len(ps.stack) - 1)
                    /\ result' = result ]_vars

\* An error has been returned to the inner of two enclosing containers.
C12_Witness ==
    /\ ps.pc = "return" /\ ~ps.ret.ok
    /\ Len(ps.stack) >= 2
    /\ ps.m_current < Len(ps.m_tokens)

\* C13: a call of contains(key), on a value of any variant, answers true
\* exactly when the value is an Object with an entry for the key and false
\* otherwise, and leaves the value parse returned as it was.
C13_ContainsTotal ==
    [][ query' # query =>
            /\ result' = result
            /\ query'.value \in Held(result.value)
            /\ query'.answer \in BOOLEAN
            /\ query'.answer = (/\ query'.value.t = "Object"
                                /\ query'.key \in DOMAIN query'.value.o) ]_vars

\* contains has answered false on a value that is not an Object.
C13_Witness ==
    /\ query # NoQuery
    /\ query.value.t \in {"Null", "Bool", "Number", "String", "Array"}
    /\ query.answer = FALSE
    /\ result.ok

\* The text c holds the two characters a and b at offset i.
PairAt(c, i, a, b) == i + 2 <= Len(c) /\ c[i + 1] = a /\ c[i + 2] = b

\* The offsets, from offset i on, where a "*/" starts.
Closers(c, i) == { j \in i..Len(c) : PairAt(c, j, "*", "/") }

\* The offset of the first newline from offset i on, or the end of the text.
LineEnd(c, i) ==
    LET nl == { j \in i..(Len(c) - 1) : c[j + 1] = "\n" } IN
    IF nl = {} THEN Len(c) ELSE CHOOSE j \in nl : \A k \in nl : j <= k

\* The offset reached from offset i over whitespace, line comments and
\* closed block comments.
RECURSIVE PastBlanks(_, _)
PastBlanks(c, i) ==
    IF i >= Len(c) THEN i
    ELSE IF c[i + 1] \in {" ", "\r", "\t", "\n"} THEN PastBlanks(c, i + 1)
    ELSE IF PairAt(c, i, "/", "/") THEN PastBlanks(c, LineEnd(c, i))
    ELSE IF PairAt(c, i, "/", "*") /\ Closers(c, i + 2) # {}
    THEN PastBlanks(c, 2 + (CHOOSE j \in Closers(c, i + 2) :
                                \A k \in Closers(c, i + 2) : j <= k))
    ELSE i

\* Between two tokens the scanner meets a "/*" that no "*/" follows.
AtOpenComment ==
    /\ tk.pc = "loop"
    /\ LET q == PastBlanks(code, tk.m_current) IN
       PairAt(code, q, "/", "*") /\ Closers(code, q + 2) = {}

\* C14: a "/*" that no "*/" follows is consumed with the rest of the text
\* and without an error: tokenize succeeds with the tokens scanned before
\* the comment and the Eof token.
C14_OpenCommentToEnd ==
    AtOpenComment =>
        LET t1 == tokenize_step(code, tk)
            t == tokenize(code)
        IN  /\ t1.pc = "finish" /\ t1.m_current = Len(code)
            /\ t1.m_tokens = tk.m_tokens
            /\ t.pc = "ok"
            /\ Len(t.m_tokens) = Len(tk.m_tokens) + 1
            /\ SubSeq(t.m_tokens, 1, Len(tk.m_tokens)) = tk.m_tokens
            /\ Last(t.m_tokens).type = "Eof"

\* tokenize has succeeded with one number and Eof on a text where a "/*"
\* and more text, with a newline in it, follow the number.
C14_Witness ==
    /\ tk.pc = "ok" /\ Len(tk.m_tokens) = 2
    /\ tk.m_tokens[1].type = "NumberLiteral"
    /\ LET q == Len(tk.m_tokens[1].lexeme) IN
       /\ SubSeq(code, 1, q) = tk.m_tokens[1].lexeme
       /\ PairAt(code, q, "/", "*")
       /\ Closers(code, q + 2) = {}
       /\ \E j \in (q + 3)..Len(code) : code[j] = "\n"

TrueFalseNull ==
    { <<"t", "r", "u", "e">>, <<"f", "a", "l", "s", "e">>,
      <<"n", "u", "l", "l">> }

\* C15: every Keyword token has the lexeme true, false or null in that
\* exact spelling; a token that starts with a letter is the longest
\* alphanumeric run from there, and tokenize fails on it with the
\* unrecognized-keyword error unless it is one of the three; so whenever
\* parse_value meets a Keyword token, lowering its case changes nothing and
\* parse_value returns a value.
C15_KeywordsExact ==
    /\ \A i \in DOMAIN tk.m_tokens :
          tk.m_tokens[i].type = "Keyword"
              => tk.m_tokens[i].lexeme \in TrueFalseNull
    /\ (tk.pc = "token" /\ isalpha(peek(code, tk))) =>
          LET run == SubSeq(code, tk.m_current + 1,
                            RunEnd(code, tk.m_current, isalnum))
              t1 == tokenize_step(code, tk)
          IN  IF run \in TrueFalseNull
              THEN /\ t1.pc = "loop"
                   /\ Last(t1.m_tokens).type = "Keyword"
                   /\ Last(t1.m_tokens).lexeme = run
              ELSE /\ t1.pc = "error"
                   /\ t1.err.m_message =
                          Message("Unregonized keyword: ", run, "")
                   /\ tokenize(code).pc = "error"
                   /\ ~parse(code).ok
    /\ (ps.pc = "value" /\ InBounds(ps)
                        /\ Parser_peek(ps).type = "Keyword") =>
          /\ lowercase(Parser_peek(ps).lexeme) = Parser_peek(ps).lexeme
          /\ parse_step(ps).pc = "return"
          /\ parse_step(ps).ret.ok
          /\ parse_step(ps).ret.value.t \in {"Bool", "Null"}

\* parse has rejected a text where the word True follows a keyword token.
C15_Witness ==
    /\ Done /\ tk.pc = "error" /\ ~result.ok
    /\ tk.err.m_message =
           Message("Unregonized keyword: ", <<"T", "r", "u", "e">>, "")
    /\ tk.m_tokens # << >>
    /\ tk.m_tokens[1].type = "Keyword"

\* C16: the parser cursor stays between 0 and the number of tokens, and no
\* peek() or advance() reads m_tokens at or past its end.
C16_CursorInBounds ==
    /\ ps.pc # "ub"
    /\ 0 <= ps.m_current /\ ps.m_current <= Len(ps.m_tokens)
    /\ ps.pc \in {"value", "object", "array"} => InBounds(ps)
    /\ (ps.pc = "return" /\ ps.stack # << >> /\ ps.ret.ok) => InBounds(ps)

\* parse has failed on a truncated text after the cursor consumed the Eof
\* token, the last of at least three.
C16_Witness ==
    /\ Done /\ tk.pc = "ok" /\ ~result.ok
    /\ Len(ps.m_tokens) >= 3
    /\ ps.m_current = Len(ps.m_tokens)

\* C17: whenever parse returns a value, the cursor rests on the Eof token,
\* the last of the sequence: every token before it was consumed.
C17_AllConsumed ==
    (Done /\ result.ok) =>
        /\ ps.m_current = Len(ps.m_tokens) - 1
        /\ Parser_peek(ps).type = "Eof"

\* One step of the scan loop, of the grammar rules or of the return to the
\* caller makes progress: a token is scanned by consuming at least one
\* character unless the scanner returns an error, the skipping of
\* whitespace and comments never moves back and hands over to a scanner or
\* to the end, parse_value consumes one token unless it returns an error,
\* the head of the object loop consumes a token, the head of the array
\* loop calls parse_value or consumes the closing token, and the steps
\* after a value never move the cursor back.
Progress ==
    /\ tk.pc = "loop" =>
          /\ tk'.m_current >= tk.m_current
          /\ tk'.pc \in {"token", "finish"}
          /\ tk'.pc = "token" => tk'.m_current < Len(code)
          /\ tk'.pc = "finish" => tk'.m_current = Len(code)
    /\ tk.pc = "token" =>
          \/ tk'.pc = "error"
          \/ tk'.pc = "loop" /\ tk'.m_current > tk.m_current
                             /\ tk'.m_current <= Len(code)
    /\ ps.pc = "value" =>
          \/ ps'.pc = "return" /\ ~ps'.ret.ok /\ ps'.m_current = ps.m_current
          \/ ps'.m_current = ps.m_current + 1
    /\ ps.pc = "object" => ps'.m_current > ps.m_current
    /\ ps.pc = "array" =>
          \/ ps'.pc = "value" /\ ps'.m_current = ps.m_current
          \/ ps'.pc = "return" /\ ps'.m_current = ps.m_current + 1
                               /\ Len(ps'.stack) < Len(ps.stack)
    /\ ps.pc = "return" =>
          /\ ps'.m_current >= ps.m_current
          /\ \/ ps'.pc = "done"
             \/ Len(ps'.stack) < Len(ps.stack)
             \/ ps'.pc \in {"object", "array"}
    /\ ps'.m_current <= Len(ps'.m_tokens)

\* C18: for every text, parse ends with a value or with an error, and
\* every step of the scan loop and of the object and array loops makes
\* progress on the way.
C18_Terminates ==
    /\ <>(Done /\ (result.ok \/ result.error.m_message # NoMessage))
    /\ [][Progress]_vars

\* parse has returned a non-empty container read from at least four
\* tokens.
C18_Witness ==
    /\ Done /\ result.ok
    /\ Len(ps.m_tokens) >= 4
    /\ \/ result.value.t = "Array" /\ result.value.a # << >>
       \/ result.value.t = "Object" /\ DOMAIN result.value.o # {}

====
